---- MODULE Spec2Model ----
(***************************************************************************)
(* A model of Trycycler's consensus stage (trycycler/consensus.py): the    *)
(* MSA partitioner, the chunk combiner, the most-common-sequence selector, *)
(* the ungapped->gapped coordinate map and the read indexer.               *)
(*                                                                         *)
(* Strings are sequences of one-character strings.  A Python dict is a     *)
(* function; where the code iterates a dict, the iteration order is the    *)
(* order of the sorted name list seq_names (load_msa sorts the names and   *)
(* every dict of the partitioner is built by iterating seq_names).         *)
(* A failed assert, a KeyError or a sys.exit ends the run: pc = "failed"   *)
(* and failed_at names the place.                                          *)
(***************************************************************************)
EXTENDS Integers, Sequences, FiniteSets, TLC

VARIABLES
    pc,                          \* position of the run
    failed_at,                   \* "" or the place where the run aborted
    seqs,                        \* load_seqs: name -> unaligned sequence
    msa_seqs,                    \* load_msa: name -> aligned sequence
    seq_names,                   \* sorted list of the MSA's names
    msa_length,                  \* length of the MSA
    combine_size,                \* settings.CHUNK_COMBINE_SIZE
    i,                           \* loop index of the running loop
    current_chunk,               \* partition_msa: the open chunk
    scan_chunks,                 \* the chunk list produced by the column scan
    chunks,                      \* the current chunk list
    consensus_seq_with_gaps,
    consensus_seq_without_gaps,
    ungapped_to_gapped,          \* the coordinate map (a dict)
    ungapped_pos,                \* make_ungapped_pos_to_gapped_pos_dict's counter
    circular,                    \* not args.linear
    aligner_out,                 \* what align_reads_to_seq returned
    alignments,                  \* index_reads: the current alignment list
    chunk_start,                 \* index_reads: the gapped cursor
    files                        \* the output files written so far

vars == <<pc, failed_at, seqs, msa_seqs, seq_names, msa_length, combine_size, i,
          current_chunk, scan_chunks, chunks, consensus_seq_with_gaps,
          consensus_seq_without_gaps, ungapped_to_gapped, ungapped_pos, circular,
          aligner_out, alignments, chunk_start, files>>

inputVars == <<seqs, msa_seqs, seq_names, msa_length, combine_size>>
consensusVars == <<consensus_seq_with_gaps, consensus_seq_without_gaps>>
mapVars == <<ungapped_to_gapped, ungapped_pos>>
readVars == <<circular, aligner_out, alignments, chunk_start>>

(***************************************************************************)
(* Bounds of the model.                                                    *)
(***************************************************************************)
MaxLen == 5          \* longest MSA of the partitioner's specification
MaxCombine == 2      \* largest combine_size tried
MaxOptionLen == 3    \* longest candidate string handed to get_most_common_seq
MaxGappedLen == 5    \* longest gapped consensus handed to the coordinate mapper
MaxAlignments == 2   \* longest list the aligner returns
MaxIndexLen == 4     \* longest MSA of the read indexer's specification
MaxRunLen == 1       \* longest sequence of the whole-run specification

(***************************************************************************)
(* Strings.                                                                *)
(***************************************************************************)
Gap == "-"
None == <<"None">>   \* Python's None, where the field otherwise holds a string
NoSeqs == <<>>       \* Python's None, where the field otherwise holds a dict

\* ord(): the code point of a base, which orders Python's string comparison.
Ord(c) ==
    CASE c = "-" -> 45 [] c = "A" -> 65 [] c = "C" -> 67
      [] c = "G" -> 71 [] c = "N" -> 78 [] c = "T" -> 84

Min(a, b) == IF a < b THEN a ELSE b
Max(a, b) == IF a > b THEN a ELSE b

Range(f) == {f[x] : x \in DOMAIN f}

\* All strings over alphabet of length 0..n.
StringsUpTo(alphabet, n) == UNION {[1..k -> alphabet] : k \in 0..n}

\* str.replace('-', '')
StripGaps(s) == SelectSeq(s, LAMBDA c : c # Gap)

\* Python's s1 < s2 on strings.
RECURSIVE StrLess(_, _)
StrLess(s1, s2) ==
    IF s2 = <<>> THEN FALSE
    ELSE IF s1 = <<>> THEN TRUE
    ELSE IF Head(s1) # Head(s2) THEN Ord(Head(s1)) < Ord(Head(s2))
    ELSE StrLess(Tail(s1), Tail(s2))

\* ''.join over a list of strings.
RECURSIVE Join(_)
Join(ss) == IF ss = <<>> THEN <<>> ELSE Head(ss) \o Join(Tail(ss))

(***************************************************************************)
(* class Chunk                                                             *)
(***************************************************************************)
Chunk ==
    [type |-> "none", seq |-> None, seqs |-> NoSeqs, read_names |-> {}, best_seq |-> None]

\* len(set(bases.values()))
base_count(bases) == Cardinality(Range(bases))

can_add_bases(chunk, bases) ==
    IF chunk.type = "none" THEN TRUE
    ELSE IF chunk.type = "same" /\ base_count(bases) = 1 THEN TRUE
    ELSE IF chunk.type = "different" /\ base_count(bases) > 1 THEN TRUE
    ELSE FALSE

\* add_bases; names is the key order of bases.
add_bases(chunk, bases, names) ==
    LET typed ==
            IF chunk.type = "none"
            THEN IF base_count(bases) = 1
                 THEN [chunk EXCEPT !.type = "same", !.seq = <<>>]
                 ELSE [chunk EXCEPT !.type = "different",
                                    !.seqs = [n \in DOMAIN bases |-> <<>>]]
            ELSE chunk
    IN  IF typed.type = "same"
        THEN [typed EXCEPT !.seq = Append(@, bases[names[1]])]
        ELSE [typed EXCEPT !.seqs = [n \in DOMAIN @ |-> Append(@[n], bases[n])]]

is_empty(chunk) == chunk.type = "none"

\* get_length's assertion: all seqs of a 'different' chunk have one length.
get_length_ok(chunk) ==
    chunk.type = "different" => Cardinality({Len(chunk.seqs[n]) : n \in DOMAIN chunk.seqs}) = 1

get_length(chunk) ==
    IF chunk.type = "none" THEN 0
    ELSE IF chunk.type = "same" THEN Len(chunk.seq)
    ELSE CHOOSE l \in {Len(chunk.seqs[n]) : n \in DOMAIN chunk.seqs} : TRUE

\* add_one_seq_to_seqs that extends the sequence of the first name only.
add_one_seq_to_first(chunk, additional_seq) ==
    LET first == CHOOSE n \in DOMAIN chunk.seqs : TRUE
    IN  [chunk EXCEPT !.seqs[first] = @ \o additional_seq]

add_one_seq_to_seqs(chunk, additional_seq) ==
    [chunk EXCEPT !.seqs = [n \in DOMAIN @ |-> @[n] \o additional_seq]]

add_multiple_seqs_to_seqs(chunk, additional_seqs) ==
    [chunk EXCEPT !.seqs = [n \in DOMAIN @ |-> @[n] \o additional_seqs[n]]]

(***************************************************************************)
(* sanity_check_chunks: TRUE iff every assertion passes.                   *)
(***************************************************************************)
RECURSIVE total_length(_)
total_length(cs) ==
    IF cs = <<>> THEN 0 ELSE get_length(Head(cs)) + total_length(Tail(cs))

sanity_check_chunks(cs, length) ==
    /\ \A k \in 1..Len(cs) :
          /\ cs[k].type # "none"
          /\ get_length_ok(cs[k])
          /\ k > 1 =>
                IF cs[k].type = "same" THEN cs[k-1].type = "different"
                ELSE cs[k-1].type = "same"
    /\ total_length(cs) = length

(***************************************************************************)
(* combine_chunks.  Each pass is a fold over the list; a result is         *)
(* [ok, list]: ok is FALSE when an assertion of the pass failed.           *)
(***************************************************************************)
Ok(list) == [ok |-> TRUE, list |-> list]
AssertionError == [ok |-> FALSE, list |-> <<>>]

Last(s) == s[Len(s)]
ReplaceLast(s, x) == [s EXCEPT ![Len(s)] = x]

\* absorb_step with '<' for '<=': a Same chunk of exactly combine_size is kept.
absorb_step_strict(combined_chunks, chunk, k, size) ==
    IF k = 1 \/ chunk.type = "different" THEN Ok(Append(combined_chunks, chunk))
    ELSE IF get_length(chunk) < size
         THEN Ok(ReplaceLast(combined_chunks,
                             add_one_seq_to_seqs(Last(combined_chunks), chunk.seq)))
         ELSE Ok(Append(combined_chunks, chunk))

\* absorb_step without the size test: every later Same chunk is absorbed.
absorb_step_any_size(combined_chunks, chunk, k, size) ==
    IF k = 1 \/ chunk.type = "different" THEN Ok(Append(combined_chunks, chunk))
    ELSE Ok(ReplaceLast(combined_chunks,
                        add_one_seq_to_seqs(Last(combined_chunks), chunk.seq)))

\* Pass A, the body of the first loop for chunk number k (1-based).
absorb_step(combined_chunks, chunk, k, size) ==
    IF k = 1 \/ chunk.type = "different" THEN Ok(Append(combined_chunks, chunk))
    ELSE IF chunk.type # "same" THEN AssertionError
    ELSE IF Last(combined_chunks).type # "different" THEN AssertionError
    ELSE IF get_length(chunk) <= size
         THEN Ok(ReplaceLast(combined_chunks,
                             add_one_seq_to_seqs(Last(combined_chunks), chunk.seq)))
         ELSE Ok(Append(combined_chunks, chunk))

RECURSIVE absorb_pass(_, _, _, _)
absorb_pass(cs, k, combined, size) ==
    IF ~combined.ok \/ k > Len(cs) THEN combined
    ELSE absorb_pass(cs, k + 1, absorb_step(combined.list, cs[k], k, size), size)

\* merge_step that never merges: adjacent Different chunks stay apart.
merge_step_keep_apart(new_chunks, chunk, k) == Ok(Append(new_chunks, chunk))

\* Pass B, the body of the second loop for chunk number k (1-based).
merge_step(new_chunks, chunk, k) ==
    IF k = 1 \/ chunk.type = "same" THEN Ok(Append(new_chunks, chunk))
    ELSE IF chunk.type # "different" THEN AssertionError
    ELSE IF Last(new_chunks).type = "different"
         THEN Ok(ReplaceLast(new_chunks,
                             add_multiple_seqs_to_seqs(Last(new_chunks), chunk.seqs)))
         ELSE Ok(Append(new_chunks, chunk))

RECURSIVE merge_pass(_, _, _)
merge_pass(cs, k, new) ==
    IF ~new.ok \/ k > Len(cs) THEN new
    ELSE merge_pass(cs, k + 1, merge_step(new.list, cs[k], k))

combine_chunks(cs, size) ==
    LET combined == absorb_pass(cs, 1, Ok(<<>>), size)
    IN  IF ~combined.ok THEN AssertionError
        ELSE merge_pass(combined.list, 1, Ok(<<>>))

(***************************************************************************)
(* partition_msa.                                                          *)
(***************************************************************************)
\* bases = {n: msa_seqs[n][i] for n in seq_names}, for the 1-based column col
column_bases(msa, names, col) == [n \in Range(names) |-> msa[n][col]]

\* The body of the column loop: st is [chunks, current_chunk].
scan_column(st, bases, names) ==
    LET closed == ~can_add_bases(st.current_chunk, bases)
        open == IF closed THEN Chunk ELSE st.current_chunk
    IN  [chunks |-> IF closed THEN Append(st.chunks, st.current_chunk) ELSE st.chunks,
         current_chunk |-> add_bases(open, bases, names)]

\* After the loop: the open chunk is appended unless it is empty.
scan_finish(st) ==
    IF ~is_empty(st.current_chunk) THEN Append(st.chunks, st.current_chunk) ELSE st.chunks

RECURSIVE scan_from(_, _, _, _, _)
scan_from(st, msa, names, length, col) ==
    IF col > length THEN st
    ELSE scan_from(scan_column(st, column_bases(msa, names, col), names),
                   msa, names, length, col + 1)

\* The whole function: [ok, list].
partition_msa(msa, names, length, size) ==
    LET scanned == scan_finish(scan_from([chunks |-> <<>>, current_chunk |-> Chunk],
                                          msa, names, length, 1))
    IN  IF ~sanity_check_chunks(scanned, length) THEN AssertionError
        ELSE LET combined == combine_chunks(scanned, size)
             IN  IF ~combined.ok THEN AssertionError
                 ELSE IF ~sanity_check_chunks(combined.list, length) THEN AssertionError
                 ELSE combined

(***************************************************************************)
(* Inputs of the partitioner's specification.                              *)
(***************************************************************************)
PartitionBases == {"A", "T"}
NameLists == {<<"s1">>, <<"s1", "s2">>}     \* sorted name lists, n >= 1

\* Every MSA of the given names with rows of length exactly len.
MsaOver(names, bases, len) == [Range(names) -> [1..len -> bases]]

\* What the stages after the partitioner hold before they run.
NotYetIndexed ==
    /\ consensus_seq_with_gaps = None
    /\ consensus_seq_without_gaps = None
    /\ ungapped_to_gapped = <<>>
    /\ ungapped_pos = 0
    /\ circular = FALSE
    /\ aligner_out = <<>>
    /\ alignments = <<>>
    /\ chunk_start = 0
    /\ files = {}

\* partition_msa is entered with a loaded MSA that passed sanity_check_msa.
InitPartition ==
    /\ pc = "scan"
    /\ failed_at = ""
    /\ seq_names \in NameLists
    /\ msa_length \in 0..MaxLen
    /\ msa_seqs \in MsaOver(seq_names, PartitionBases, msa_length)
    /\ seqs = [n \in DOMAIN msa_seqs |-> StripGaps(msa_seqs[n])]
    /\ combine_size \in 0..MaxCombine
    /\ i = 0
    /\ current_chunk = Chunk
    /\ scan_chunks = <<>>
    /\ chunks = <<>>
    /\ NotYetIndexed

\* One iteration of the column loop of partition_msa.
ScanColumn ==
    /\ pc = "scan"
    /\ i < msa_length
    /\ LET st == scan_column([chunks |-> chunks, current_chunk |-> current_chunk],
                             column_bases(msa_seqs, seq_names, i + 1), seq_names)
       IN  /\ chunks' = st.chunks
           /\ current_chunk' = st.current_chunk
    /\ i' = i + 1
    /\ UNCHANGED <<pc, failed_at, inputVars, scan_chunks, consensusVars, mapVars,
                   readVars, files>>

\* The end of the column loop and the first sanity_check_chunks.
ScanFinish ==
    /\ pc = "scan"
    /\ i = msa_length
    /\ chunks' = scan_finish([chunks |-> chunks, current_chunk |-> current_chunk])
    /\ scan_chunks' = chunks'
    /\ IF sanity_check_chunks(chunks', msa_length)
       THEN pc' = "combine" /\ failed_at' = failed_at
       ELSE pc' = "failed" /\ failed_at' = "sanity_check_chunks(scan)"
    /\ UNCHANGED <<inputVars, i, current_chunk, consensusVars, mapVars, readVars, files>>

\* combine_chunks and the second sanity_check_chunks.
CombineChunks ==
    /\ pc = "combine"
    /\ LET combined == combine_chunks(chunks, combine_size)
       IN  IF ~combined.ok
           THEN /\ pc' = "failed"
                /\ failed_at' = "combine_chunks"
                /\ chunks' = chunks
           ELSE /\ chunks' = combined.list
                /\ IF sanity_check_chunks(combined.list, msa_length)
                   THEN pc' = "partitioned" /\ failed_at' = failed_at
                   ELSE pc' = "failed" /\ failed_at' = "sanity_check_chunks(combine)"
    /\ UNCHANGED <<inputVars, i, current_chunk, scan_chunks, consensusVars, mapVars,
                   readVars, files>>

NextPartition == ScanColumn \/ ScanFinish \/ CombineChunks

SpecPartition == InitPartition /\ [][NextPartition]_vars

(***************************************************************************)
(* Properties of the partitioner and the combiner.                         *)
(***************************************************************************)
\* The length of a chunk, read off its own representation.
ChunkLen(c) ==
    IF c.type = "same" THEN Len(c.seq)
    ELSE IF c.type = "different" THEN Len(c.seqs[CHOOSE n \in DOMAIN c.seqs : TRUE])
    ELSE 0

RECURSIVE SumLen(_, _)
SumLen(cs, k) == IF k = 0 THEN 0 ELSE SumLen(cs, k - 1) + ChunkLen(cs[k])

\* The first (1-based) column of chunk k and the column after its last one.
ChunkFrom(cs, k) == SumLen(cs, k - 1) + 1
ChunkTo(cs, k) == SumLen(cs, k) + 1
ChunkColumns(cs, k) == ChunkFrom(cs, k)..(ChunkTo(cs, k) - 1)

StrictlyAlternating(cs) ==
    /\ \A k \in 1..Len(cs) : cs[k].type \in {"same", "different"}
    /\ \A k \in 1..(Len(cs) - 1) : cs[k].type # cs[k+1].type

\* The number of distinct bases in a column of the MSA.
DistinctBases(col) == Cardinality({msa_seqs[n][col] : n \in DOMAIN msa_seqs})

\* C1: both structural checks of partition_msa pass for every MSA and every
\* combine_size: the scanned list and the combined list each alternate strictly
\* (no unset kind) and their chunk lengths sum to the MSA's length.
C1_ChecksPass ==
    /\ pc # "failed"
    /\ pc \in {"combine", "partitioned"} =>
          StrictlyAlternating(scan_chunks) /\ SumLen(scan_chunks, Len(scan_chunks)) = msa_length
    /\ pc = "partitioned" =>
          StrictlyAlternating(chunks) /\ SumLen(chunks, Len(chunks)) = msa_length

\* A run in which the combiner both absorbed and merged, and chunks remain apart.
C1_Witness ==
    /\ pc = "partitioned"
    /\ Len(scan_chunks) >= 5
    /\ Len(chunks) \in 2..(Len(scan_chunks) - 2)

\* C2: in the combined list no Same chunk of length <= combine_size has a
\* Different chunk immediately before it and immediately after it.
C2_NoSmallSameBetweenDifferent ==
    pc = "partitioned" =>
        ~\E k \in 2..(Len(chunks) - 1) :
            /\ chunks[k].type = "same"
            /\ ChunkLen(chunks[k]) <= combine_size
            /\ chunks[k-1].type = "different"
            /\ chunks[k+1].type = "different"

\* The scan produced a small Same chunk between two Different chunks, and the
\* combined list still has a Same chunk next to a Different chunk.
C2_Witness ==
    /\ pc = "partitioned"
    /\ \E k \in 2..(Len(scan_chunks) - 1) :
          scan_chunks[k].type = "same" /\ ChunkLen(scan_chunks[k]) <= combine_size
    /\ \E k \in 1..Len(chunks) : chunks[k].type = "same"
    /\ \E k \in 1..Len(chunks) : chunks[k].type = "different"

\* C3 as claimed: in the returned list every column of a Different chunk has
\* more than one distinct base and every column of a Same chunk exactly one.
C3_EveryColumnDiffers ==
    pc = "partitioned" =>
        \A k \in 1..Len(chunks) : \A col \in ChunkColumns(chunks, k) :
            IF chunks[k].type = "different" THEN DistinctBases(col) > 1
            ELSE DistinctBases(col) = 1

\* The columns from..to-1 all hold exactly one distinct base.
AgreeingRun(from, to) == \A col \in from..(to - 1) : DistinctBases(col) = 1

\* C3 as amended: a Different chunk holds the MSA's rows over its range, its
\* first column has more than one distinct base, and its agreeing columns come
\* in runs of at most combine_size; every column of a Same chunk has exactly one
\* distinct base.
C3_DifferentChunkColumns ==
    pc = "partitioned" =>
        \A k \in 1..Len(chunks) :
            LET from == ChunkFrom(chunks, k)
                to == ChunkTo(chunks, k)
            IN  IF chunks[k].type = "different"
                THEN /\ \A n \in DOMAIN msa_seqs :
                           chunks[k].seqs[n] = SubSeq(msa_seqs[n], from, to - 1)
                     /\ DistinctBases(from) > 1
                     /\ \A a \in from..(to - 1) : \A b \in (a + 1)..to :
                           AgreeingRun(a, b) => b - a <= combine_size
                ELSE /\ AgreeingRun(from, to)
                     /\ \A n \in DOMAIN msa_seqs :
                           chunks[k].seq = SubSeq(msa_seqs[n], from, to - 1)

\* A returned Different chunk that absorbed a Same chunk and merged with the
\* Different chunk after it.
C3_Witness ==
    /\ pc = "partitioned"
    /\ \E k \in 1..Len(chunks) :
          /\ chunks[k].type = "different"
          /\ \E col \in ChunkColumns(chunks, k) :
                /\ DistinctBases(col) = 1
                /\ col + 1 \in ChunkColumns(chunks, k)
                /\ DistinctBases(col + 1) > 1

\* Chunk k of the scanned list is still a chunk of its own in the combined list.
LeftAsOwnChunk(k) ==
    \E j \in 1..Len(chunks) :
        /\ chunks[j].type = scan_chunks[k].type
        /\ ChunkFrom(chunks, j) = ChunkFrom(scan_chunks, k)
        /\ ChunkTo(chunks, j) = ChunkTo(scan_chunks, k)

\* C10: combine_chunks absorbs a Same chunk only when it lies between two
\* Different chunks of its input; a Same chunk that is the first or the last
\* chunk of the list is left as its own chunk.
C10_AbsorbsOnlyBetweenDifferent ==
    pc = "partitioned" =>
        \A k \in 1..Len(scan_chunks) :
            (scan_chunks[k].type = "same" /\ ~LeftAsOwnChunk(k)) =>
                /\ 1 < k /\ k < Len(scan_chunks)
                /\ scan_chunks[k-1].type = "different"
                /\ scan_chunks[k+1].type = "different"

(***************************************************************************)
(* Chunk.get_most_common_seq and make_initial_consensus.                   *)
(***************************************************************************)
hamming_distance(s1, s2) ==
    LET dist[k \in 0..Len(s1)] ==
            IF k = 0 THEN 0 ELSE dist[k-1] + (IF s1[k] # s2[k] THEN 1 ELSE 0)
    IN  dist[Len(s1)]

\* Insert the pair p = <<value, key>> into a list sorted by key, after every
\* pair whose key is not larger: the stable order of Python's sorted().
RECURSIVE InsertByKey(_, _)
InsertByKey(sorted, p) ==
    IF sorted = <<>> THEN <<p>>
    ELSE IF p[2] < Head(sorted)[2] THEN <<p>> \o sorted
    ELSE <<Head(sorted)>> \o InsertByKey(Tail(sorted), p)

\* sorted(pairs, key=lambda x: x[1])
RECURSIVE SortedByKey(_)
SortedByKey(pairs) ==
    IF pairs = <<>> THEN <<>>
    ELSE InsertByKey(SortedByKey(SubSeq(pairs, 1, Len(pairs) - 1)), pairs[Len(pairs)])

\* The sort without reverse=True: the least frequent option comes first.
SortedByKeyNotReversed(pairs) == SortedByKey(pairs)

\* sorted(pairs, key=lambda x: x[1], reverse=True): descending, equal keys in
\* their original order.
SortedByKeyReverse(pairs) ==
    LET negated == [k \in 1..Len(pairs) |-> <<pairs[k][1], 0 - pairs[k][2]>>]
        sorted == SortedByKey(negated)
    IN  [k \in 1..Len(sorted) |-> <<sorted[k][1], 0 - sorted[k][2]>>]

\* list(collections.Counter(options).items()): the distinct options in the
\* order of their first occurrence, each with its number of occurrences.
Counter(options) ==
    LET firsts == SelectSeq([k \in 1..Len(options) |-> k],
                            LAMBDA k : \A j \in 1..(k - 1) : options[j] # options[k])
    IN  [f \in 1..Len(firsts) |->
            <<options[firsts[f]],
              Cardinality({j \in 1..Len(options) : options[j] = options[firsts[f]]})>>]

\* sorted(strings)[0]
RECURSIVE FirstSorted(_)
FirstSorted(strings) ==
    IF Len(strings) = 1 THEN strings[1]
    ELSE LET rest == FirstSorted(Tail(strings))
         IN  IF StrLess(rest, Head(strings)) THEN rest ELSE Head(strings)

\* The sum of the distances from x to every option, as the inner loop adds them.
RECURSIVE total_distance(_, _)
total_distance(x, options) ==
    IF options = <<>> THEN 0
    ELSE hamming_distance(x, Head(options)) + total_distance(x, Tail(options))

\* Keys of pairs whose key-value equals that of the first pair.
WithFirstKey(pairs) ==
    LET kept == SelectSeq(pairs, LAMBDA p : p[2] = pairs[1][2])
    IN  [k \in 1..Len(kept) |-> kept[k][1]]

\* get_most_common_seq's assertion: a 'different' chunk has several options.
get_most_common_seq_ok(chunk, names) ==
    chunk.type = "different" =>
        Len(Counter([k \in 1..Len(names) |-> chunk.seqs[names[k]]])) > 1

\* names is the key order of chunk.seqs.
get_most_common_seq(chunk, names) ==
    IF chunk.type = "none" THEN <<>>
    ELSE IF chunk.type = "same" THEN chunk.seq
    ELSE LET options == [k \in 1..Len(names) |-> chunk.seqs[names[k]]]
             option_counts == SortedByKeyReverse(Counter(options))
             best_options == WithFirstKey(option_counts)
         IN  IF Len(best_options) = 1 THEN best_options[1]
             ELSE LET hamming_distances ==
                          SortedByKey([k \in 1..Len(best_options) |->
                              <<best_options[k], total_distance(best_options[k], options)>>])
                      closest == WithFirstKey(hamming_distances)
                  IN  IF Len(closest) = 1 THEN closest[1]
                      ELSE FirstSorted(closest)

set_best_seq_as_most_common(chunk, names) ==
    [chunk EXCEPT !.best_seq = get_most_common_seq(chunk, names)]

\* One iteration of the loop of make_initial_consensus, for chunk number i + 1.
SetBestSeq ==
    /\ pc = "consensus"
    /\ i < Len(chunks)
    /\ IF get_most_common_seq_ok(chunks[i + 1], seq_names)
       THEN /\ chunks' = [chunks EXCEPT
                             ![i + 1] = set_best_seq_as_most_common(@, seq_names)]
            /\ i' = i + 1
            /\ UNCHANGED <<pc, failed_at>>
       ELSE /\ pc' = "failed"
            /\ failed_at' = "get_most_common_seq"
            /\ UNCHANGED <<chunks, i>>
    /\ UNCHANGED <<inputVars, current_chunk, scan_chunks, consensusVars, mapVars,
                   readVars, files>>

\* The end of make_initial_consensus: the two consensus strings.
JoinConsensus ==
    /\ pc = "consensus"
    /\ i = Len(chunks)
    /\ consensus_seq_with_gaps' = Join([k \in 1..Len(chunks) |-> chunks[k].best_seq])
    /\ consensus_seq_without_gaps' = StripGaps(consensus_seq_with_gaps')
    /\ pc' = "consensus_made"
    /\ UNCHANGED <<failed_at, inputVars, i, current_chunk, scan_chunks, chunks, mapVars,
                   readVars, files>>

(***************************************************************************)
(* The selector's specification: get_most_common_seq on every 'different'  *)
(* chunk of two to five candidates.                                        *)
(***************************************************************************)
OptionBases == {"A", "T"}
OptionNames == <<"n1", "n2", "n3", "n4", "n5">>
OptionNameLists == {SubSeq(OptionNames, 1, n) : n \in 2..Len(OptionNames)}

DifferentChunk(candidates) == [Chunk EXCEPT !.type = "different", !.seqs = candidates]

InitSelect ==
    /\ pc = "consensus"
    /\ failed_at = ""
    /\ seq_names \in OptionNameLists
    /\ msa_length \in 0..MaxOptionLen
    /\ msa_seqs \in MsaOver(seq_names, OptionBases, msa_length)
    /\ seqs = [n \in DOMAIN msa_seqs |-> StripGaps(msa_seqs[n])]
    /\ combine_size = 0
    /\ i = 0
    /\ current_chunk = Chunk
    /\ scan_chunks = <<>>
    /\ chunks = <<DifferentChunk(msa_seqs)>>
    /\ NotYetIndexed

NextSelect == SetBestSeq \/ JoinConsensus

SpecSelect == InitSelect /\ [][NextSelect]_vars

\* The reference rule, stated on the multiset of candidates.
Candidates(c) == Range(c.seqs)
Occurrences(c, x) == Cardinality({n \in DOMAIN c.seqs : c.seqs[n] = x})
Mismatches(x, y) == Cardinality({k \in 1..Len(x) : x[k] # y[k]})

RECURSIVE SumOver(_, _, _)
SumOver(c, x, ns) ==
    IF ns = {} THEN 0
    ELSE LET n == CHOOSE m \in ns : TRUE
         IN  Mismatches(x, c.seqs[n]) + SumOver(c, x, ns \ {n})

Distance(c, x) == SumOver(c, x, DOMAIN c.seqs)

\* x comes before y in the order of the code points, or is y.
LexLeq(x, y) ==
    \/ x = y
    \/ \E k \in 1..Len(x) :
          /\ \A j \in 1..(k - 1) : x[j] = y[j]
          /\ Ord(x[k]) < Ord(y[k])

\* The most frequent candidates.
Leading(c) ==
    LET count == [x \in Candidates(c) |-> Occurrences(c, x)]
    IN  {x \in Candidates(c) : \A y \in Candidates(c) : count[y] <= count[x]}

\* Among them, those of least total distance to every candidate occurrence.
Closest(c) ==
    LET leading == Leading(c)
        distance == [x \in leading |-> Distance(c, x)]
    IN  {x \in leading : \A y \in leading : distance[x] <= distance[y]}

Reference(c) ==
    LET closest == Closest(c)
    IN  CHOOSE x \in closest : \A y \in closest : LexLeq(x, y)

TheCandidates(c) == [k \in 1..Len(seq_names) |-> c.seqs[seq_names[k]]]
AAA == <<"A", "A", "A">>
AAT == <<"A", "A", "T">>
ATT == <<"A", "T", "T">>
TTT == <<"T", "T", "T">>

\* C4: for a Different chunk with at least two distinct candidates,
\* get_most_common_seq returns what the reference rule gives (most frequent,
\* then least total Hamming distance to all occurrences, then lexicographically
\* smallest), always one of the candidates; {AAA,AAA,TTT,TTT} gives AAA and
\* {AAA,AAA,AAT,AAT,ATT} gives AAT.
C4_MostCommonIsReference ==
    (i = 1 /\ Len(chunks) = 1 /\ chunks[1].type = "different") =>
        /\ Cardinality(Candidates(chunks[1])) >= 2
        /\ chunks[1].best_seq = Reference(chunks[1])
        /\ chunks[1].best_seq \in Candidates(chunks[1])
        /\ (Len(seq_names) = 4 /\ Occurrences(chunks[1], AAA) = 2
               /\ Occurrences(chunks[1], TTT) = 2) => chunks[1].best_seq = AAA
        /\ (Len(seq_names) = 5 /\ Occurrences(chunks[1], AAA) = 2
               /\ Occurrences(chunks[1], AAT) = 2
               /\ Occurrences(chunks[1], ATT) = 1) => chunks[1].best_seq = AAT

\* The second example of the claim has been decided: by distance, against the
\* lexicographic order.
C4_Witness ==
    /\ i = 1
    /\ Len(chunks) = 1
    /\ TheCandidates(chunks[1]) = <<AAA, AAA, AAT, AAT, ATT>>
    /\ chunks[1].best_seq = AAT

ungapped_len == Len(consensus_seq_without_gaps)
gapped_len == Len(consensus_seq_with_gaps)

(***************************************************************************)
(* make_ungapped_pos_to_gapped_pos_dict.  Positions are 0-based, as in the *)
(* code: the base at Python index idx of a string s is s[idx + 1].         *)
(***************************************************************************)
\* dict[key] = value
DictSet(dict, key, value) ==
    [k \in DOMAIN dict \cup {key} |-> IF k = key THEN value ELSE dict[k]]

\* map_step that keeps the first index recorded for a position.
map_step_first_wins(st, idx, base) ==
    [map |-> IF st.pos \in DOMAIN st.map THEN st.map ELSE DictSet(st.map, st.pos, idx),
     pos |-> IF base # Gap THEN st.pos + 1 ELSE st.pos]

\* map_step that records a position only at a base that is not a gap.
map_step_bases_only(st, idx, base) ==
    [map |-> IF base # Gap THEN DictSet(st.map, st.pos, idx) ELSE st.map,
     pos |-> IF base # Gap THEN st.pos + 1 ELSE st.pos]

\* The body of the loop, at index idx: st is [map, pos].
map_step(st, idx, base) ==
    [map |-> DictSet(st.map, st.pos, idx),
     pos |-> IF base # Gap THEN st.pos + 1 ELSE st.pos]

RECURSIVE map_from(_, _, _)
map_from(st, with_gaps, idx) ==
    IF idx >= Len(with_gaps) THEN st
    ELSE map_from(map_step(st, idx, with_gaps[idx + 1]), with_gaps, idx + 1)

\* The whole function: [ok, map]; ok is FALSE when the final assertion fails.
make_ungapped_pos_to_gapped_pos_dict(with_gaps, without_gaps) ==
    LET st == map_from([map |-> <<>>, pos |-> 0], with_gaps, 0)
    IN  [ok |-> st.pos = Len(without_gaps), map |-> st.map]

\* One iteration of the loop.
MapStep ==
    /\ pc = "map"
    /\ i < Len(consensus_seq_with_gaps)
    /\ LET st == map_step([map |-> ungapped_to_gapped, pos |-> ungapped_pos],
                          i, consensus_seq_with_gaps[i + 1])
       IN  /\ ungapped_to_gapped' = st.map
           /\ ungapped_pos' = st.pos
    /\ i' = i + 1
    /\ UNCHANGED <<pc, failed_at, inputVars, current_chunk, scan_chunks, chunks,
                   consensusVars, readVars, files>>

\* The assertion after the loop, and the return.
MapFinish ==
    /\ pc = "map"
    /\ i = Len(consensus_seq_with_gaps)
    /\ IF ungapped_pos = Len(consensus_seq_without_gaps)
       THEN pc' = "mapped" /\ failed_at' = failed_at
       ELSE pc' = "failed" /\ failed_at' = "make_ungapped_pos_to_gapped_pos_dict"
    /\ UNCHANGED <<inputVars, i, current_chunk, scan_chunks, chunks, consensusVars,
                   mapVars, readVars, files>>

(***************************************************************************)
(* The mapper's specification: every gapped consensus string.              *)
(***************************************************************************)
ConsensusBases == {"A", "C", Gap}

InitMap ==
    /\ pc = "map"
    /\ failed_at = ""
    /\ seqs = <<>>
    /\ msa_seqs = <<>>
    /\ seq_names = <<>>
    /\ consensus_seq_with_gaps \in StringsUpTo(ConsensusBases, MaxGappedLen)
    /\ consensus_seq_without_gaps = StripGaps(consensus_seq_with_gaps)
    /\ msa_length = Len(consensus_seq_with_gaps)
    /\ combine_size = 0
    /\ i = 0
    /\ current_chunk = Chunk
    /\ scan_chunks = <<>>
    /\ chunks = <<>>
    /\ ungapped_to_gapped = <<>>
    /\ ungapped_pos = 0
    /\ circular = FALSE
    /\ aligner_out = <<>>
    /\ alignments = <<>>
    /\ chunk_start = 0
    /\ files = {}

NextMap == MapStep \/ MapFinish

SpecMap == InitMap /\ [][NextMap]_vars

\* C5: for every ungapped position p the map is defined at p, and the gapped
\* consensus base at map[p] is no gap and is the ungapped consensus base at p.
C5_MapRoundTrip ==
    pc = "mapped" =>
        \A p \in 0..(ungapped_len - 1) :
            /\ p \in DOMAIN ungapped_to_gapped
            /\ ungapped_to_gapped[p] \in 0..(gapped_len - 1)
            /\ consensus_seq_with_gaps[ungapped_to_gapped[p] + 1] # Gap
            /\ consensus_seq_with_gaps[ungapped_to_gapped[p] + 1]
                  = consensus_seq_without_gaps[p + 1]

\* A consensus with two different bases and a gap before the second.
C5_Witness ==
    /\ pc = "mapped"
    /\ ungapped_len >= 2
    /\ consensus_seq_without_gaps[1] # consensus_seq_without_gaps[2]
    /\ \E p \in 1..(ungapped_len - 1) : ungapped_to_gapped[p] > p

StrictlyIncreasing(dict) ==
    \A p \in DOMAIN dict : \A q \in DOMAIN dict : p < q => dict[p] < dict[q]

\* C6 as claimed: the map has exactly the keys 0..ungapped_len-1 and its values
\* increase strictly with the key.
C6_MapHasUngappedLenEntries ==
    pc = "mapped" =>
        /\ DOMAIN ungapped_to_gapped = 0..(ungapped_len - 1)
        /\ Cardinality(DOMAIN ungapped_to_gapped) = ungapped_len
        /\ StrictlyIncreasing(ungapped_to_gapped)

EndsInGap(s) == Len(s) > 0 /\ s[Len(s)] = Gap

\* C6 as amended: the keys are 0..ungapped_len-1, and also ungapped_len when
\* the gapped consensus ends in a gap (that key maps to the last gapped index);
\* the values increase strictly with the key.
C6_MapKeys ==
    pc = "mapped" =>
        /\ DOMAIN ungapped_to_gapped =
              IF EndsInGap(consensus_seq_with_gaps)
              THEN 0..ungapped_len ELSE 0..(ungapped_len - 1)
        /\ EndsInGap(consensus_seq_with_gaps) =>
              ungapped_to_gapped[ungapped_len] = gapped_len - 1
        /\ StrictlyIncreasing(ungapped_to_gapped)

\* A consensus with bases that ends in gaps has been mapped.
C6_Witness ==
    /\ pc = "mapped"
    /\ ungapped_len >= 2
    /\ gapped_len >= ungapped_len + 2
    /\ EndsInGap(consensus_seq_with_gaps)
    /\ ungapped_len \in DOMAIN ungapped_to_gapped

(***************************************************************************)
(* index_reads.  An alignment record is                                    *)
(* [query_name, ref_start, ref_end, query_start, query_end, query_cov,     *)
(*  alignment_score].                                                      *)
(***************************************************************************)
min_read_cov == 90      \* args.min_read_cov, in percent
min_aligned_len == 2    \* args.min_aligned_len

\* [a for a in alignments if a.ref_start < ungapped_len]
circular_trim(as, length) == SelectSeq(as, LAMBDA a : a.ref_start < length)

\* The keys of alignments_per_read, in the order of their insertion.
read_order(as) ==
    LET firsts == SelectSeq([k \in 1..Len(as) |-> k],
                            LAMBDA k : \A j \in 1..(k - 1) :
                                           as[j].query_name # as[k].query_name)
    IN  [f \in 1..Len(firsts) |-> as[firsts[f]].query_name]

\* get_best_alignment_per_read that takes each read's last record.
get_last_alignment_per_read(as) ==
    LET names == read_order(as)
    IN  [r \in 1..Len(names) |->
            Last(SelectSeq(as, LAMBDA a : a.query_name = names[r]))]

get_best_alignment_per_read(as) ==
    LET names == read_order(as)
    IN  [r \in 1..Len(names) |->
            LET of_read == SelectSeq(as, LAMBDA a : a.query_name = names[r])
                sorted == SortedByKeyReverse(
                              [k \in 1..Len(of_read) |->
                                  <<of_read[k], of_read[k].alignment_score>>])
            IN  sorted[1][1]]

\* The quality filter of lines 133-134.
quality_filter(as) ==
    SelectSeq(as, LAMBDA a : /\ a.query_cov >= min_read_cov
                             /\ a.query_end - a.query_start >= min_aligned_len)

\* misc.range_overlap: the half-open ranges [x1, x2) and [y1, y2) intersect.
range_overlap(x1, x2, y1, y2) == Max(x1, y1) < Min(x2, y2)

\* The dict lookups made for alignment a all hit a key.
lookups_ok(a, map, length) ==
    /\ a.ref_start \in DOMAIN map
    /\ IF a.ref_end <= length THEN a.ref_end \in DOMAIN map
       ELSE (a.ref_end - length) \in DOMAIN map

\* read_overlaps that forgets the part of a wrapped alignment after the origin.
read_overlaps_tail_only(a, from, to, map, length, gapped) ==
    LET gapped_start == map[a.ref_start]
    IN  IF a.ref_end <= length
        THEN range_overlap(from, to, gapped_start, map[a.ref_end])
        ELSE range_overlap(from, to, gapped_start, gapped)

\* Lines 146-155: whether alignment a puts its read into the chunk [from, to).
read_overlaps(a, from, to, map, length, gapped) ==
    LET gapped_start == map[a.ref_start]
    IN  IF a.ref_end <= length
        THEN range_overlap(from, to, gapped_start, map[a.ref_end])
        ELSE \/ range_overlap(from, to, gapped_start, gapped)
             \/ range_overlap(from, to, 0, map[a.ref_end - length])

\* The loop over the alignments for one 'different' chunk: [ok, names]; ok is
\* FALSE when a lookup raised KeyError, names holds the reads added until then.
RECURSIVE gather_reads(_, _, _, _, _, _, _)
gather_reads(as, names, from, to, map, length, gapped) ==
    IF as = <<>> THEN [ok |-> TRUE, names |-> names]
    ELSE IF ~lookups_ok(Head(as), map, length) THEN [ok |-> FALSE, names |-> names]
    ELSE gather_reads(Tail(as),
                      IF read_overlaps(Head(as), from, to, map, length, gapped)
                      THEN names \cup {Head(as).query_name} ELSE names,
                      from, to, map, length, gapped)

\* Lines 114-118: the coordinate map is built.
BuildMap ==
    /\ pc = "index"
    /\ LET built == make_ungapped_pos_to_gapped_pos_dict(consensus_seq_with_gaps,
                                                         consensus_seq_without_gaps)
       IN  /\ ungapped_to_gapped' = built.map
           /\ ungapped_pos' = Len(consensus_seq_without_gaps)
           /\ IF built.ok THEN pc' = "align" /\ failed_at' = failed_at
              ELSE pc' = "failed" /\ failed_at' = "make_ungapped_pos_to_gapped_pos_dict"
    /\ UNCHANGED <<inputVars, i, current_chunk, scan_chunks, chunks, consensusVars,
                   readVars, files>>

\* The alignment records the aligner may return for a reference of length len.
AlignerRecords(len, reads) ==
    [query_name : reads,
     ref_start : 0..(len - 1),
     ref_end : 1..len,
     query_start : {0},
     query_end : {min_aligned_len - 1, min_aligned_len},
     query_cov : {min_read_cov - 1, min_read_cov},
     alignment_score : 1..2]

FilterReads == {"r1", "r2"}

\* Lines 121-128: the aligner is called and, when circular, its records that
\* start in the second copy of the consensus are dropped.  The aligner returns
\* any list of at most most records.
AlignReturning(most) ==
    /\ pc = "align"
    /\ \E n \in 0..most :
          \E returned \in [1..n -> {a \in AlignerRecords(
                                        IF circular THEN 2 * ungapped_len ELSE ungapped_len,
                                        FilterReads) : a.ref_end = a.ref_start + 1}] :
              /\ aligner_out' = returned
              /\ alignments' = IF circular THEN circular_trim(returned, ungapped_len)
                               ELSE returned
    /\ pc' = "best"
    /\ UNCHANGED <<failed_at, inputVars, i, current_chunk, scan_chunks, chunks,
                   consensusVars, mapVars, circular, chunk_start, files>>

Align == AlignReturning(MaxAlignments)

\* Line 132.
BestPerRead ==
    /\ pc = "best"
    /\ alignments' = get_best_alignment_per_read(alignments)
    /\ pc' = "quality"
    /\ UNCHANGED <<failed_at, inputVars, i, current_chunk, scan_chunks, chunks,
                   consensusVars, mapVars, circular, aligner_out, chunk_start, files>>

\* Lines 133-140.
QualityFilter ==
    /\ pc = "quality"
    /\ alignments' = quality_filter(alignments)
    /\ chunk_start' = 0
    /\ i' = 0
    /\ pc' = "gather"
    /\ UNCHANGED <<failed_at, inputVars, current_chunk, scan_chunks, chunks,
                   consensusVars, mapVars, circular, aligner_out, files>>

\* One iteration of the loop over the chunks (lines 142-158), for chunk i + 1.
GatherChunk ==
    /\ pc = "gather"
    /\ i < Len(chunks)
    /\ LET chunk == chunks[i + 1]
           chunk_end == chunk_start + get_length(chunk)
           gathered == gather_reads(alignments, chunk.read_names, chunk_start, chunk_end,
                                    ungapped_to_gapped, ungapped_len, gapped_len)
       IN  IF chunk.type = "different"
           THEN /\ chunks' = [chunks EXCEPT ![i + 1].read_names = gathered.names]
                /\ IF gathered.ok
                   THEN /\ chunk_start' = chunk_end
                        /\ i' = i + 1
                        /\ UNCHANGED <<pc, failed_at>>
                   ELSE /\ pc' = "failed"
                        /\ failed_at' = "index_reads(KeyError)"
                        /\ UNCHANGED <<chunk_start, i>>
           ELSE /\ chunk_start' = chunk_end
                /\ i' = i + 1
                /\ UNCHANGED <<pc, failed_at, chunks>>
    /\ UNCHANGED <<inputVars, current_chunk, scan_chunks, consensusVars, mapVars,
                   circular, aligner_out, alignments, files>>

\* Line 159: the assertion after the loop.
GatherFinish ==
    /\ pc = "gather"
    /\ i = Len(chunks)
    /\ IF chunk_start = Len(consensus_seq_with_gaps)
       THEN pc' = "indexed" /\ failed_at' = failed_at
       ELSE pc' = "failed" /\ failed_at' = "index_reads(cursor)"
    /\ UNCHANGED <<inputVars, i, current_chunk, scan_chunks, chunks, consensusVars,
                   mapVars, readVars, files>>

(***************************************************************************)
(* The state in which index_reads is entered: the chunks of an MSA with    *)
(* their best sequences set, and the two consensus strings.                *)
(***************************************************************************)
RECURSIVE set_best_from(_, _, _)
set_best_from(cs, names, k) ==
    IF k > Len(cs) THEN cs
    ELSE set_best_from([cs EXCEPT ![k] = set_best_seq_as_most_common(@, names)],
                       names, k + 1)

\* make_initial_consensus, whole: [ok, chunks, with_gaps, without_gaps].
make_initial_consensus(cs, names) ==
    LET best == set_best_from(cs, names, 1)
        with_gaps == Join([k \in 1..Len(best) |-> best[k].best_seq])
    IN  [ok |-> \A k \in 1..Len(cs) : get_most_common_seq_ok(cs[k], names),
         chunks |-> best,
         with_gaps |-> with_gaps,
         without_gaps |-> StripGaps(with_gaps)]

\* The variables as index_reads finds them for the given MSA and combine_size.
ConsensusMade(msa, names, length, size) ==
    LET made == make_initial_consensus(partition_msa(msa, names, length, size).list, names)
    IN  /\ made.ok
        /\ seq_names = names
        /\ msa_length = length
        /\ msa_seqs = msa
        /\ seqs = [n \in DOMAIN msa |-> StripGaps(msa[n])]
        /\ combine_size = size
        /\ current_chunk = Chunk
        /\ scan_chunks = <<>>
        /\ chunks = made.chunks
        /\ consensus_seq_with_gaps = made.with_gaps
        /\ consensus_seq_without_gaps = made.without_gaps

(***************************************************************************)
(* The filter's specification: the whole of index_reads, for every list    *)
(* the aligner may return, on the consensus "A-" of the MSA {A-, C-}.      *)
(***************************************************************************)
FilterNames == <<"s1", "s2">>
FilterMsa == [s1 |-> <<"A", Gap>>, s2 |-> <<"C", Gap>>]

InitFilter ==
    /\ pc = "index"
    /\ failed_at = ""
    /\ ConsensusMade(FilterMsa, FilterNames, 2, 0)
    /\ i = 0
    /\ ungapped_to_gapped = <<>>
    /\ ungapped_pos = 0
    /\ circular \in BOOLEAN
    /\ aligner_out = <<>>
    /\ alignments = <<>>
    /\ chunk_start = 0
    /\ files = {"5_chunked_sequence.gfa", "6_initial_consensus.fasta"}

NextFilter ==
    BuildMap \/ Align \/ BestPerRead \/ QualityFilter \/ GatherChunk \/ GatherFinish

SpecFilter == InitFilter /\ [][NextFilter]_vars

\* The records of read r that survive the circular trimming, as positions in
\* the aligner's list.
Eligible(r) ==
    {k \in 1..Len(aligner_out) :
        /\ aligner_out[k].query_name = r
        /\ circular => aligner_out[k].ref_start < ungapped_len}

\* The first of the top-scoring eligible records of read r.
BestOf(r) ==
    aligner_out[CHOOSE k \in Eligible(r) :
        \A j \in Eligible(r) :
            \/ aligner_out[j].alignment_score < aligner_out[k].alignment_score
            \/ aligner_out[j].alignment_score = aligner_out[k].alignment_score /\ k <= j]

PassesQuality(a) ==
    ~(a.query_cov < min_read_cov \/ a.query_end - a.query_start < min_aligned_len)

Retained(r) == {alignments[k] : k \in {j \in 1..Len(alignments) : alignments[j].query_name = r}}

\* C8: whatever the aligner returns, in whatever order, after the filters a read
\* has at most one alignment: the first top-scoring one among its records that
\* start in the first copy of the consensus, and only if that one passes the
\* quality filter; otherwise the read has none and enters no chunk.
C8_OneBestAlignmentPerRead ==
    pc \in {"gather", "indexed"} =>
        /\ \A j, k \in 1..Len(alignments) :
              alignments[j].query_name = alignments[k].query_name => j = k
        /\ \A r \in FilterReads :
              IF Eligible(r) # {} /\ PassesQuality(BestOf(r))
              THEN Retained(r) = {BestOf(r)}
              ELSE /\ Retained(r) = {}
                   /\ \A k \in 1..Len(chunks) : r \notin chunks[k].read_names

\* A read whose best record fails the quality filter although a lower-scoring
\* record of it passes, and the indexing has finished.
C8_Witness ==
    /\ pc = "indexed"
    /\ circular
    /\ \E j, k \in Eligible("r1") :
          /\ aligner_out[j].alignment_score < aligner_out[k].alignment_score
          /\ PassesQuality(aligner_out[j])
          /\ ~PassesQuality(aligner_out[k])
    /\ \A k \in 1..Len(chunks) : "r1" \notin chunks[k].read_names

(***************************************************************************)
(* The indexer's specification: the chunk loop of index_reads, entered     *)
(* with the chunks and the consensus of every small MSA and with every     *)
(* list of alignments the filters can leave (one per read, inside the      *)
(* reference, starting in the first copy when circular).                   *)
(***************************************************************************)
IndexBases == {"A", Gap}
IndexNames == <<"s1", "s2">>
IndexCombineSizes == {0, 1}
IndexReads == {"r1"}

RetainedRecords(circ, length) ==
    {a \in AlignerRecords(IF circ THEN 2 * length ELSE length, IndexReads) :
        /\ a.ref_start < a.ref_end
        /\ circ => a.ref_start < length
        /\ a.query_end = min_aligned_len
        /\ a.query_cov = min_read_cov
        /\ a.alignment_score = 1}

InitIndex ==
    /\ pc = "gather"
    /\ failed_at = ""
    /\ \E length \in 0..MaxIndexLen :
          \E msa \in MsaOver(IndexNames, IndexBases, length) :
              \E size \in IndexCombineSizes :
                  ConsensusMade(msa, IndexNames, length, size)
    /\ i = 0
    /\ ungapped_to_gapped =
          make_ungapped_pos_to_gapped_pos_dict(consensus_seq_with_gaps,
                                               consensus_seq_without_gaps).map
    /\ ungapped_pos = Len(consensus_seq_without_gaps)
    /\ circular \in BOOLEAN
    /\ alignments \in
          {<<>>} \cup {<<a>> : a \in RetainedRecords(circular,
                                                    Len(consensus_seq_without_gaps))}
    /\ aligner_out = alignments
    /\ chunk_start = 0
    /\ files = {"5_chunked_sequence.gfa", "6_initial_consensus.fasta"}

NextIndex == GatherChunk \/ GatherFinish

SpecIndex == InitIndex /\ [][NextIndex]_vars

\* The gapped columns (0-based) of chunk k: [cursor, cursor + Lk).
GappedRange(k) == SumLen(chunks, k - 1)..(SumLen(chunks, k) - 1)

\* The footprint of alignment a, as a set of gapped columns: one interval,
\* or two when the alignment crosses the circular origin.
Footprint(a) ==
    IF a.ref_end <= ungapped_len
    THEN ungapped_to_gapped[a.ref_start]..(ungapped_to_gapped[a.ref_end] - 1)
    ELSE (ungapped_to_gapped[a.ref_start]..(gapped_len - 1))
         \cup (0..(ungapped_to_gapped[a.ref_end - ungapped_len] - 1))

\* C7: after index_reads completes, a read is in a chunk's read_names iff the
\* chunk is Different and the footprint of the read's retained alignment meets
\* the chunk's gapped range; so a read whose footprint lies inside one
\* Different chunk is in that chunk only, and Same chunks hold no reads.
C7_ReadsOfOverlappingChunks ==
    pc = "indexed" =>
        /\ \A k \in 1..Len(chunks) : \A r \in IndexReads \cup FilterReads :
              r \in chunks[k].read_names <=>
                  /\ chunks[k].type = "different"
                  /\ \E j \in 1..Len(alignments) :
                        /\ alignments[j].query_name = r
                        /\ Footprint(alignments[j]) \cap GappedRange(k) # {}
        /\ \A k \in 1..Len(chunks) : chunks[k].read_names \subseteq IndexReads \cup FilterReads
        /\ \A k \in 1..Len(chunks) :
              chunks[k].type = "same" => chunks[k].read_names = {}
        /\ \A j \in 1..Len(alignments) : \A k \in 1..Len(chunks) :
              (chunks[k].type = "different" /\ Footprint(alignments[j]) # {}
                  /\ Footprint(alignments[j]) \subseteq GappedRange(k))
              => \A m \in 1..Len(chunks) :
                    alignments[j].query_name \in chunks[m].read_names <=> m = k

\* An alignment across the circular origin has been indexed: its read is in
\* a Different chunk at the head of the consensus, which only the part after
\* the origin reaches, and a Same chunk lies under the footprint too.
C7_Witness ==
    /\ pc = "indexed"
    /\ circular
    /\ Len(alignments) = 1
    /\ alignments[1].ref_end > ungapped_len
    /\ \E k, m \in 1..Len(chunks) :
          /\ chunks[k].type = "different"
          /\ "r1" \in chunks[k].read_names
          /\ GappedRange(k) \cap
                (ungapped_to_gapped[alignments[1].ref_start]..(gapped_len - 1)) = {}
          /\ chunks[m].type = "same"
          /\ Footprint(alignments[1]) \cap GappedRange(m) # {}

\* A linear alignment that lies inside one Different chunk has been indexed,
\* and another Different chunk is left without the read.
C7_WitnessInside ==
    /\ pc = "indexed"
    /\ Len(alignments) = 1
    /\ \E k, m \in 1..Len(chunks) :
          /\ chunks[k].type = "different"
          /\ chunks[m].type = "different"
          /\ Footprint(alignments[1]) \subseteq GappedRange(k)
          /\ "r1" \in chunks[k].read_names
          /\ "r1" \notin chunks[m].read_names

(***************************************************************************)
(* consensus(): the whole run.                                             *)
(***************************************************************************)
\* sanity_check_msa without the comparison of the sequences.
sanity_check_msa_names_only(unaligned, msa, length) ==
    /\ DOMAIN unaligned = DOMAIN msa
    /\ \A n \in DOMAIN unaligned : Len(unaligned[n]) <= length

\* sanity_check_msa: TRUE iff every assertion passes.  The two name lists are
\* sorted lists of dict keys, so they are equal iff the key sets are.
sanity_check_msa(unaligned, msa, length) ==
    /\ DOMAIN unaligned = DOMAIN msa
    /\ \A n \in DOMAIN unaligned :
          /\ Len(unaligned[n]) <= length
          /\ unaligned[n] = StripGaps(msa[n])

\* load_msa's assertion: the aligned sequences have one length.
load_msa_ok(msa) == Cardinality({Len(msa[n]) : n \in DOMAIN msa}) = 1

\* The number of graph segments save_chunks_to_gfa writes for a chunk.
segment_count(chunk) ==
    IF chunk.type = "same" THEN 1 ELSE Cardinality(Range(chunk.seqs))

\* save_chunks_to_gfa's assertions.
save_chunks_to_gfa_ok(cs) ==
    \A k \in 2..Len(cs) :
        IF cs[k].type = "same" THEN segment_count(cs[k-1]) > 1
        ELSE segment_count(cs[k-1]) = 1

RunNames == <<"x", "y">>
RunNameSets == {{"x"}, {"x", "y"}}
RunBases == {"A", "C"}

\* sorted(seqs.keys())
SortedNames(dict) == SelectSeq(RunNames, LAMBDA n : n \in DOMAIN dict)

\* The run starts with the two FASTA files of the cluster directory.
InitRun ==
    /\ pc = "start"
    /\ failed_at = ""
    /\ \E names \in RunNameSets : seqs \in [names -> StringsUpTo(RunBases, MaxRunLen)]
    /\ \E names \in RunNameSets :
          msa_seqs \in [names -> StringsUpTo(RunBases \cup {Gap}, MaxRunLen)]
    /\ seq_names = <<>>
    /\ msa_length = 0
    /\ combine_size \in IndexCombineSizes
    /\ i = 0
    /\ current_chunk = Chunk
    /\ scan_chunks = <<>>
    /\ chunks = <<>>
    /\ consensus_seq_with_gaps = None
    /\ consensus_seq_without_gaps = None
    /\ ungapped_to_gapped = <<>>
    /\ ungapped_pos = 0
    /\ circular \in BOOLEAN
    /\ aligner_out = <<>>
    /\ alignments = <<>>
    /\ chunk_start = 0
    /\ files = {}

\* check_inputs_and_requirements: the reads, the directory, the contig file
\* and minimap2 are as required, or the run exits.
CheckInputs ==
    /\ pc = "start"
    /\ \E passed \in BOOLEAN :
          IF passed /\ DOMAIN seqs # {}
          THEN pc' = "load" /\ failed_at' = failed_at
          ELSE pc' = "failed" /\ failed_at' = "check_inputs_and_requirements"
    /\ UNCHANGED <<inputVars, i, current_chunk, scan_chunks, chunks, consensusVars,
                   mapVars, readVars, files>>

\* load_seqs and load_msa.
LoadSeqs ==
    /\ pc = "load"
    /\ IF load_msa_ok(msa_seqs)
       THEN /\ seq_names' = SortedNames(msa_seqs)
            /\ msa_length' = Len(msa_seqs[CHOOSE n \in DOMAIN msa_seqs : TRUE])
            /\ pc' = "sanity"
            /\ failed_at' = failed_at
       ELSE /\ pc' = "failed"
            /\ failed_at' = "load_msa"
            /\ UNCHANGED <<seq_names, msa_length>>
    /\ UNCHANGED <<seqs, msa_seqs, combine_size, i, current_chunk, scan_chunks, chunks,
                   consensusVars, mapVars, readVars, files>>

SanityCheckMsa ==
    /\ pc = "sanity"
    /\ IF sanity_check_msa(seqs, msa_seqs, msa_length)
       THEN pc' = "scan" /\ failed_at' = failed_at
       ELSE pc' = "failed" /\ failed_at' = "sanity_check_msa"
    /\ UNCHANGED <<inputVars, i, current_chunk, scan_chunks, chunks, consensusVars,
                   mapVars, readVars, files>>

\* save_chunks_to_gfa: the file is opened before the assertions are made.
SaveChunksToGfa ==
    /\ pc = "partitioned"
    /\ files' = files \cup {"5_chunked_sequence.gfa"}
    /\ IF save_chunks_to_gfa_ok(chunks)
       THEN pc' = "consensus" /\ failed_at' = failed_at
       ELSE pc' = "failed" /\ failed_at' = "save_chunks_to_gfa"
    /\ i' = 0
    /\ UNCHANGED <<inputVars, current_chunk, scan_chunks, chunks, consensusVars,
                   mapVars, readVars>>

\* save_seqs_to_fasta
SaveConsensus ==
    /\ pc = "consensus_made"
    /\ files' = files \cup {"6_initial_consensus.fasta"}
    /\ pc' = "index"
    /\ UNCHANGED <<failed_at, inputVars, i, current_chunk, scan_chunks, chunks,
                   consensusVars, mapVars, readVars>>

\* In the whole run the aligner returns at most one record.
AlignOne == AlignReturning(1)

\* choose_best_chunk_options: a loop that does nothing.
ChooseBestChunkOptions ==
    /\ pc = "indexed"
    /\ pc' = "done"
    /\ UNCHANGED <<failed_at, inputVars, i, current_chunk, scan_chunks, chunks,
                   consensusVars, mapVars, readVars, files>>

NextRun ==
    \/ CheckInputs \/ LoadSeqs \/ SanityCheckMsa
    \/ ScanColumn \/ ScanFinish \/ CombineChunks \/ SaveChunksToGfa
    \/ SetBestSeq \/ JoinConsensus \/ SaveConsensus
    \/ BuildMap \/ AlignOne \/ BestPerRead \/ QualityFilter \/ GatherChunk \/ GatherFinish
    \/ ChooseBestChunkOptions

SpecRun == InitRun /\ [][NextRun]_vars

\* The name lists differ, or an aligned sequence without its gaps is not the
\* unaligned sequence of its name.
Mismatch ==
    \/ DOMAIN seqs # DOMAIN msa_seqs
    \/ \E n \in DOMAIN seqs \cap DOMAIN msa_seqs :
          SelectSeq(msa_seqs[n], LAMBDA c : c \in RunBases) # seqs[n]

StagesAfterSanityCheck ==
    {"scan", "combine", "partitioned", "consensus", "consensus_made", "index", "align",
     "best", "quality", "gather", "indexed", "done"}

\* C9: when the inputs mismatch, a run that gets to sanity_check_msa fails
\* there, and in no case does a later stage execute: no chunk is created, no
\* file is written, no read is aligned or indexed.
C9_MismatchAbortsRun ==
    Mismatch =>
        /\ pc \notin StagesAfterSanityCheck
        /\ pc \in {"start", "load", "sanity", "failed"}
        /\ pc = "failed" =>
              failed_at \in {"check_inputs_and_requirements", "load_msa", "sanity_check_msa"}
        /\ (pc = "failed" /\ load_msa_ok(msa_seqs)
               /\ failed_at # "check_inputs_and_requirements")
              => failed_at = "sanity_check_msa"
        /\ current_chunk = Chunk
        /\ chunks = <<>>
        /\ scan_chunks = <<>>
        /\ files = {}
        /\ consensus_seq_with_gaps = None
        /\ ungapped_to_gapped = <<>>
        /\ aligner_out = <<>>
        /\ alignments = <<>>

\* A run has failed at sanity_check_msa with equal name lists and sequences no
\* longer than the MSA: only the sequences differ.
C9_Witness ==
    /\ pc = "failed"
    /\ failed_at = "sanity_check_msa"
    /\ DOMAIN seqs = DOMAIN msa_seqs
    /\ \A n \in DOMAIN seqs : Len(seqs[n]) = 1 /\ Len(StripGaps(msa_seqs[n])) = 1
    /\ Mismatch

\* A run with matching inputs has gone through every stage.
RunCompletes == pc = "done" /\ Len(chunks) > 0 /\ Len(alignments) > 0

(***************************************************************************)
(* The selector after the partitioner: partition_msa, save_chunks_to_gfa   *)
(* and make_initial_consensus on every small MSA.                          *)
(***************************************************************************)
NextConsensus ==
    \/ ScanColumn \/ ScanFinish \/ CombineChunks \/ SaveChunksToGfa
    \/ SetBestSeq \/ JoinConsensus

SpecConsensus == InitPartition /\ [][NextConsensus]_vars

\* The candidate strings of a chunk, and their lengths.
CandidateStrings(c) == {c.seqs[n] : n \in DOMAIN c.seqs}
CandidateLengths(c) == {Len(c.seqs[n]) : n \in DOMAIN c.seqs}

\* C11: every Different chunk of the list partition_msa returns has at least
\* two distinct candidate strings and candidates of one length, so no assertion
\* of get_most_common_seq or get_length fails while the consensus is made.
C11_DifferentChunksHaveOptions ==
    /\ pc # "failed"
    /\ pc \in {"partitioned", "consensus", "consensus_made"} =>
          \A k \in 1..Len(chunks) :
              chunks[k].type = "different" =>
                  /\ Cardinality(CandidateStrings(chunks[k])) >= 2
                  /\ Cardinality(CandidateLengths(chunks[k])) = 1
                  /\ \A n \in DOMAIN msa_seqs :
                        Len(chunks[k].seqs[n]) = ChunkLen(chunks[k])

\* The consensus has been made from a Different chunk that absorbed a Same
\* chunk and was merged with the Different chunk after it.
C11_Witness ==
    /\ pc = "consensus_made"
    /\ Len(scan_chunks) >= 4
    /\ \E k \in 1..Len(chunks) :
          /\ chunks[k].type = "different"
          /\ ChunkLen(chunks[k]) >= 3
          /\ chunks[k].best_seq \in CandidateStrings(chunks[k])
          /\ \E col \in ChunkColumns(chunks, k) :
                /\ DistinctBases(col) = 1
                /\ col + 1 \in ChunkColumns(chunks, k)
                /\ DistinctBases(col + 1) > 1

\* The alignments index_reads is left with lie inside the reference handed to
\* the aligner and start in its first copy.
AlignmentsInReference ==
    \A j \in 1..Len(alignments) :
        /\ 0 <= alignments[j].ref_start
        /\ alignments[j].ref_start < alignments[j].ref_end
        /\ alignments[j].ref_end <= (IF circular THEN 2 * ungapped_len ELSE ungapped_len)
        /\ circular => alignments[j].ref_start < ungapped_len

\* C12: with a Different chunk in the list and the alignments inside the
\* reference, every lookup in the coordinate map hits a key, so index_reads
\* does not stop at a lookup and ends with its cursor at the gapped length.
C12_LookupsHit ==
    ((\E k \in 1..Len(chunks) : chunks[k].type = "different") /\ AlignmentsInReference) =>
        /\ failed_at # "index_reads(KeyError)"
        /\ pc \in {"indexed", "failed"} => (pc = "indexed" /\ chunk_start = gapped_len)

====
